---- MODULE Spec2Model ----
(***************************************************************************)
(* Model of the fixed-pool allocator of src/main.c.                        *)
(*                                                                         *)
(* Memory is modelled at the granularity of header fields: mem maps the    *)
(* absolute address of a field slot to the value stored there, and a slot  *)
(* that was never written reads 0 (the pool has static storage).  A header *)
(* is the six slots magic, size, free, next, prev, checksum starting at    *)
(* the block address; headers absorbed by a coalesce stay in memory until  *)
(* a later split writes over them, exactly as in the C program.  Callers    *)
(* call my_malloc and my_free only; what they store in their payloads is   *)
(* not modelled.                                                           *)
(*                                                                         *)
(* Values of the unsigned types (uint32_t, size_t) are kept as their       *)
(* two's-complement representative: a value v below 2^31 is v, and the     *)
(* value 2^w - k is -k.  Addition, subtraction and masking with            *)
(* ~(ALIGNMENT-1) commute with this representation; only comparisons must  *)
(* be done as unsigned comparisons (UGe).  All addresses and block sizes   *)
(* of the model are below 2^31, so on a 64-bit build the upper four bytes  *)
(* of every eight-byte slot are zero.                                      *)
(***************************************************************************)
EXTENDS Integers, Sequences, FiniteSets, TLC

\* ------------------------------------------------------------------------
\* Configuration (src/main.c:15-17)
\* ------------------------------------------------------------------------
POOL_SIZE == 65536
ALIGNMENT == 8
\* 0xDEADBEEF as a 32-bit two's-complement representative
MAGIC_COOKIE == -559038737
NULL == 0

\* ------------------------------------------------------------------------
\* Bounds of the exploration
\* ------------------------------------------------------------------------
\* the callers stop allocating after this many successful allocations
MaxAllocs == 3

\* request sizes the callers use; -1 stands for SIZE_MAX (2^w - 1)
Requests == {0, 1, 16, 40, POOL_SIZE - 32, POOL_SIZE, -1}

\* the data models and pool addresses a build can produce: sizeof(size_t) =
\* sizeof(void* ) = 4 (ILP32) or 8 (LP64), and where the linker put the pool
\* (0x0804B020 and 0x00404060 are the addresses of memory_pool_union in
\* non-PIE gcc builds for i386 and x86-64)
Builds ==
  { [abi |-> "ILP32", base |-> 134524960],
    [abi |-> "LP64",  base |-> 4210784] }

VARIABLES
  abi,               \* data model of the build
  memory_pool,       \* address of the first byte of the pool
  mem,               \* slot address -> stored value
  free_list_head,    \* address of the head block
  total_allocated,
  total_free,
  allocation_count,
  fragmentation_score,
  lastCall,          \* the last public call: operation, argument, result
  returned,          \* payload references handed out so far
  outstanding,       \* payload references handed out and not passed to free since
  tearing,           \* the caller has started to release everything
  allocs,            \* number of successful allocations so far
  rt                 \* progress of an allocate(n); free(p); allocate(n) round trip

allocVars == <<mem, free_list_head, total_allocated, total_free, allocation_count>>
vars == <<abi, memory_pool, mem, free_list_head, total_allocated, total_free,
          allocation_count, fragmentation_score, lastCall, returned, outstanding, tearing, allocs, rt>>

\* ------------------------------------------------------------------------
\* Layout of block_header_t (src/main.c:24-33)
\* ------------------------------------------------------------------------
WordSize == IF abi = "LP64" THEN 8 ELSE 4

OffMagic    == 0
OffSize     == WordSize
OffFree     == 2 * WordSize
OffNext     == 3 * WordSize
OffPrev     == 4 * WordSize
OffChecksum == 5 * WordSize

\* sizeof(block_header_t): the checksum field plus tail padding up to the
\* alignment of the widest member
SizeofHeader == 6 * WordSize

\* AlignUp leaving the requested size as it is
AlignUp_none(x) == x

AlignUp(x) == (x + ALIGNMENT - 1) - ((x + ALIGNMENT - 1) % ALIGNMENT)

HEADER_SIZE == AlignUp(SizeofHeader)

\* unsigned a >= b on two's-complement representatives
UGe(a, b) == IF (a < 0) = (b < 0) THEN a >= b ELSE a < 0

\* ------------------------------------------------------------------------
\* Memory access
\* ------------------------------------------------------------------------
Rd(m, a) == IF a \in DOMAIN m THEN m[a] ELSE 0

Wr(m, a, v) == (a :> v) @@ m

Byte(v, i) == (v \div (256 ^ i)) % 256

ByteSum(v) == Byte(v, 0) + Byte(v, 1) + Byte(v, 2) + Byte(v, 3)

\* header->free is a uint8_t: the low byte of its slot
FreeOf(m, h) == Byte(Rd(m, h + OffFree), 0)

SetFree(m, h, f) ==
  LET w == Rd(m, h + OffFree)
  IN  Wr(m, h + OffFree, w - (w % 256) + f)

SizeOf(m, h) == Rd(m, h + OffSize)
NextOf(m, h) == Rd(m, h + OffNext)
PrevOf(m, h) == Rd(m, h + OffPrev)

\* ------------------------------------------------------------------------
\* calculate_checksum, verify_header (src/main.c:71-90)
\* ------------------------------------------------------------------------
\* The loop sums the first sizeof(block_header_t) - sizeof(uint32_t) bytes.
\* Slot k contributes when its four value bytes lie inside that range: the
\* slots magic .. prev always, and the checksum slot itself when the header
\* has tail padding (LP64: 44 bytes are summed, the checksum is at 40).
Covered(k) == k * WordSize + 4 <= SizeofHeader - 4

RECURSIVE SumSlots(_, _, _)
SumSlots(m, h, k) ==
  IF k > 5 THEN 0
  ELSE (IF Covered(k) THEN ByteSum(Rd(m, h + k * WordSize)) ELSE 0)
       + SumSlots(m, h, k + 1)

calculate_checksum(m, header) == SumSlots(m, header, 0)

verify_header(m, header) ==
  /\ Rd(m, header + OffMagic) = MAGIC_COOKIE
  /\ Rd(m, header + OffChecksum) = calculate_checksum(m, header)

\* header->checksum = calculate_checksum(header)
Seal(m, h) == Wr(m, h + OffChecksum, calculate_checksum(m, h))

\* ------------------------------------------------------------------------
\* The allocator's state as one value, and the walked block list
\* ------------------------------------------------------------------------
State ==
  [ mem |-> mem, free_list_head |-> free_list_head,
    total_allocated |-> total_allocated, total_free |-> total_free,
    allocation_count |-> allocation_count ]

EmptyMem == [a \in {} |-> 0]

\* the block addresses met by following next from p
RECURSIVE ListFrom(_, _)
ListFrom(m, p) ==
  IF p = NULL THEN <<>> ELSE <<p>> \o ListFrom(m, NextOf(m, p))

BlockList == ListFrom(mem, free_list_head)

\* the addresses of a list as a set
SetOf(l) == {l[i] : i \in 1..Len(l)}

BlockSet == SetOf(BlockList)

\* ------------------------------------------------------------------------
\* init_allocator (src/main.c:96-117)
\* ------------------------------------------------------------------------
InitMem(base) ==
  LET m1 == Wr(EmptyMem, base + OffMagic, MAGIC_COOKIE)
      m2 == Wr(m1, base + OffSize, POOL_SIZE - HEADER_SIZE)
      m3 == SetFree(m2, base, 1)
      m4 == Wr(m3, base + OffNext, NULL)
      m5 == Wr(m4, base + OffPrev, NULL)
  IN  Seal(m5, base)

\* ------------------------------------------------------------------------
\* my_malloc (src/main.c:123-185)
\* ------------------------------------------------------------------------
\* Fits without the look at the free flag
Fits_anystate(m, current, aligned_size) ==
  UGe(SizeOf(m, current), aligned_size)

\* current->free && current->size >= aligned_size
Fits(m, current, aligned_size) ==
  FreeOf(m, current) # 0 /\ UGe(SizeOf(m, current), aligned_size)

\* the search loop: the first block that is free and large enough, unless
\* a block met on the way fails verify_header
RECURSIVE FirstFit(_, _, _)
FirstFit(m, current, aligned_size) ==
  IF current = NULL THEN [diag |-> "FAIL", blk |-> NULL]
  ELSE IF ~verify_header(m, current) THEN [diag |-> "CORRUPTION", blk |-> NULL]
  ELSE IF Fits(m, current, aligned_size)
       THEN [diag |-> "OK", blk |-> current]
  ELSE FirstFit(m, NextOf(m, current), aligned_size)

\* SplitBlock without  best_fit->next->prev = new_block
SplitBlock_nobacklink(m, best_fit, aligned_size, remaining_size) ==
  LET new_block == best_fit + HEADER_SIZE + aligned_size
      m1 == Wr(m, new_block + OffMagic, MAGIC_COOKIE)
      m2 == Wr(m1, new_block + OffSize, remaining_size - HEADER_SIZE)
      m3 == SetFree(m2, new_block, 1)
      m4 == Wr(m3, new_block + OffNext, NextOf(m3, best_fit))
      m5 == Wr(m4, new_block + OffPrev, best_fit)
      m6 == Seal(m5, new_block)
  IN  Wr(m6, best_fit + OffNext, new_block)

\* the body of  if (remaining_size >= HEADER_SIZE + ALIGNMENT) { ... }
SplitBlock(m, best_fit, aligned_size, remaining_size) ==
  LET new_block == best_fit + HEADER_SIZE + aligned_size
      m1 == Wr(m, new_block + OffMagic, MAGIC_COOKIE)
      m2 == Wr(m1, new_block + OffSize, remaining_size - HEADER_SIZE)
      m3 == SetFree(m2, new_block, 1)
      m4 == Wr(m3, new_block + OffNext, NextOf(m3, best_fit))
      m5 == Wr(m4, new_block + OffPrev, best_fit)
      m6 == Seal(m5, new_block)
      \* best_fit->next->prev = new_block; that block's checksum is left as it was
      m7 == IF NextOf(m6, best_fit) # NULL
            THEN Wr(m6, NextOf(m6, best_fit) + OffPrev, new_block)
            ELSE m6
  IN  Wr(m7, best_fit + OffNext, new_block)

\* MarkAllocated leaving the size of the selected block as it was
MarkAllocated_keepsize(m, best_fit, aligned_size) ==
  Seal(SetFree(m, best_fit, 0), best_fit)

\* best_fit->free = 0; best_fit->size = aligned_size; reseal (both branches)
MarkAllocated(m, best_fit, aligned_size) ==
  LET m1 == SetFree(m, best_fit, 0)
      m2 == Wr(m1, best_fit + OffSize, aligned_size)
  IN  Seal(m2, best_fit)

\* AccountAlloc charging the header of the block to total_free as well
AccountAlloc_header(st, aligned_size) ==
  [ st EXCEPT !.total_allocated = @ + aligned_size,
              !.total_free = @ - aligned_size - HEADER_SIZE,
              !.allocation_count = @ + 1 ]

\* total_allocated += aligned_size; total_free -= aligned_size; allocation_count++
AccountAlloc(st, aligned_size) ==
  [ st EXCEPT !.total_allocated = @ + aligned_size,
              !.total_free = @ - aligned_size,
              !.allocation_count = @ + 1 ]

\* my_malloc counting the call before it knows that a block was found
my_malloc_countfirst(st, size) ==
  IF size = 0 THEN [st |-> st, ret |-> NULL, diag |-> "ZERO"]
  ELSE
    LET aligned_size == AlignUp(size)
        found == FirstFit(st.mem, st.free_list_head, aligned_size)
        st0 == [st EXCEPT !.allocation_count = @ + 1]
    IN  IF found.blk = NULL THEN [st |-> st0, ret |-> NULL, diag |-> found.diag]
        ELSE
          LET best_fit == found.blk
              remaining_size == SizeOf(st.mem, best_fit) - aligned_size
              m1 == IF UGe(remaining_size, HEADER_SIZE + ALIGNMENT)
                    THEN SplitBlock(st.mem, best_fit, aligned_size, remaining_size)
                    ELSE st.mem
              m2 == MarkAllocated(m1, best_fit, aligned_size)
          IN  [ st |-> [ st0 EXCEPT !.mem = m2,
                                    !.total_allocated = @ + aligned_size,
                                    !.total_free = @ - aligned_size ],
                ret |-> best_fit + HEADER_SIZE,
                diag |-> "OK" ]

my_malloc(st, size) ==
  IF size = 0 THEN [st |-> st, ret |-> NULL, diag |-> "ZERO"]
  ELSE
    LET aligned_size == AlignUp(size)
        found == FirstFit(st.mem, st.free_list_head, aligned_size)
    IN  IF found.blk = NULL THEN [st |-> st, ret |-> NULL, diag |-> found.diag]
        ELSE
          LET best_fit == found.blk
              remaining_size == SizeOf(st.mem, best_fit) - aligned_size
              m1 == IF UGe(remaining_size, HEADER_SIZE + ALIGNMENT)
                    THEN SplitBlock(st.mem, best_fit, aligned_size, remaining_size)
                    ELSE st.mem
              m2 == MarkAllocated(m1, best_fit, aligned_size)
          IN  [ st |-> AccountAlloc([st EXCEPT !.mem = m2], aligned_size),
                ret |-> best_fit + HEADER_SIZE,
                diag |-> "OK" ]

\* ------------------------------------------------------------------------
\* my_free (src/main.c:191-258)
\* ------------------------------------------------------------------------
\* CoalesceNext without the merge
CoalesceNext_skip(m, header) == m

\* "Coalesce with next block"
CoalesceNext(m, header) ==
  LET next == NextOf(m, header)
  IN  IF next # NULL /\ FreeOf(m, next) # 0 /\ verify_header(m, next)
      THEN LET m1 == Wr(m, header + OffSize,
                        SizeOf(m, header) + HEADER_SIZE + SizeOf(m, next))
               m2 == Wr(m1, header + OffNext, NextOf(m1, next))
               \* next->next->prev = header; no checksum is recomputed for it
               m3 == IF NextOf(m2, next) # NULL
                     THEN Wr(m2, NextOf(m2, next) + OffPrev, header)
                     ELSE m2
           IN  Seal(m3, header)
      ELSE m

\* CoalescePrev adding the payload of the absorbed block without its header
CoalescePrev_noheader(m, header) ==
  LET prev == PrevOf(m, header)
  IN  IF prev # NULL /\ FreeOf(m, prev) # 0 /\ verify_header(m, prev)
      THEN LET m1 == Wr(m, prev + OffSize,
                        SizeOf(m, prev) + SizeOf(m, header))
               m2 == Wr(m1, prev + OffNext, NextOf(m1, header))
               m3 == IF NextOf(m2, header) # NULL
                     THEN Wr(m2, NextOf(m2, header) + OffPrev, prev)
                     ELSE m2
           IN  Seal(m3, prev)
      ELSE m

\* "Coalesce with previous block"
CoalescePrev(m, header) ==
  LET prev == PrevOf(m, header)
  IN  IF prev # NULL /\ FreeOf(m, prev) # 0 /\ verify_header(m, prev)
      THEN LET m1 == Wr(m, prev + OffSize,
                        SizeOf(m, prev) + HEADER_SIZE + SizeOf(m, header))
               m2 == Wr(m1, prev + OffNext, NextOf(m1, header))
               \* header->next->prev = prev; no checksum is recomputed for it
               m3 == IF NextOf(m2, header) # NULL
                     THEN Wr(m2, NextOf(m2, header) + OffPrev, prev)
                     ELSE m2
           IN  Seal(m3, prev)
      ELSE m

\* MarkFree without the reseal
MarkFree_noseal(m, header) == SetFree(m, header, 1)

\* header->free = 1; header->checksum = calculate_checksum(header)
MarkFree(m, header) == Seal(SetFree(m, header, 1), header)

\* AccountFree giving the bytes back to total_free only
AccountFree_keepalloc(st, size) ==
  [ st EXCEPT !.total_free = @ + size,
              !.allocation_count = @ - 1 ]

\* total_allocated -= header->size; total_free += header->size; allocation_count--
AccountFree(st, size) ==
  [ st EXCEPT !.total_allocated = @ - size,
              !.total_free = @ + size,
              !.allocation_count = @ - 1 ]

\* my_free without the  if (header->free)  check
my_free_nodouble(st, ptr) ==
  IF ptr = NULL THEN [st |-> st, diag |-> "NULLFREE"]
  ELSE
    LET header == ptr - HEADER_SIZE
    IN  IF ~verify_header(st.mem, header) THEN [st |-> st, diag |-> "CORRUPTION"]
        ELSE
          LET m1 == MarkFree(st.mem, header)
              st1 == AccountFree([st EXCEPT !.mem = m1], SizeOf(m1, header))
              m2 == CoalesceNext(m1, header)
              m3 == CoalescePrev(m2, header)
          IN  [st |-> [st1 EXCEPT !.mem = m3], diag |-> "OK"]

my_free(st, ptr) ==
  IF ptr = NULL THEN [st |-> st, diag |-> "NULLFREE"]
  ELSE
    LET header == ptr - HEADER_SIZE
    IN  IF ~verify_header(st.mem, header) THEN [st |-> st, diag |-> "CORRUPTION"]
        ELSE IF FreeOf(st.mem, header) # 0 THEN [st |-> st, diag |-> "DOUBLEFREE"]
        ELSE
          LET m1 == MarkFree(st.mem, header)
              st1 == AccountFree([st EXCEPT !.mem = m1], SizeOf(m1, header))
              m2 == CoalesceNext(m1, header)
              m3 == CoalescePrev(m2, header)
          IN  [st |-> [st1 EXCEPT !.mem = m3], diag |-> "OK"]

\* ------------------------------------------------------------------------
\* calculate_fragmentation (src/main.c:264-286)
\* ------------------------------------------------------------------------
\* the loop: free_block_count, total_free_space and largest_free_block over
\* the blocks that pass verify_header and are free
RECURSIVE FragWalk(_, _, _)
FragWalk(m, current, acc) ==
  IF current = NULL THEN acc
  ELSE
    LET size == SizeOf(m, current)
        acc1 == IF verify_header(m, current) /\ FreeOf(m, current) # 0
                THEN [ free_block_count |-> acc.free_block_count + 1,
                       total_free_space |-> acc.total_free_space + size,
                       largest_free_block |->
                         IF ~UGe(acc.largest_free_block, size)
                         THEN size ELSE acc.largest_free_block ]
                ELSE acc
    IN  FragWalk(m, NextOf(m, current), acc1)

\* calculate_fragmentation dividing before it multiplies by 100
calculate_fragmentation_latemul(st) ==
  LET acc == FragWalk(st.mem, st.free_list_head,
                      [ free_block_count |-> 0, total_free_space |-> 0,
                        largest_free_block |-> 0 ])
  IN  IF acc.free_block_count > 1 /\ ~UGe(0, acc.total_free_space)
      THEN 100 - ((acc.largest_free_block \div acc.total_free_space) * 100)
      ELSE 0

calculate_fragmentation(st) ==
  LET acc == FragWalk(st.mem, st.free_list_head,
                      [ free_block_count |-> 0, total_free_space |-> 0,
                        largest_free_block |-> 0 ])
  IN  IF acc.free_block_count > 1 /\ ~UGe(0, acc.total_free_space)
      THEN 100 - ((acc.largest_free_block * 100) \div acc.total_free_space)
      ELSE 0

\* ------------------------------------------------------------------------
\* The state machine
\* ------------------------------------------------------------------------
NoCall == [op |-> "init", arg |-> 0, ret |-> NULL, diag |-> "OK"]
NoTrip == [stage |-> 0, n |-> 0, p |-> NULL]

\* the state main() is in after init_allocator()
Init ==
  /\ \E b \in Builds : abi = b.abi /\ memory_pool = b.base
  /\ mem = InitMem(memory_pool)
  /\ free_list_head = memory_pool
  /\ total_allocated = 0
  /\ total_free = POOL_SIZE - HEADER_SIZE
  /\ allocation_count = 0
  /\ fragmentation_score = 0
  /\ lastCall = NoCall
  /\ returned = {}
  /\ outstanding = {}
  /\ tearing = FALSE
  /\ allocs = 0
  /\ rt = NoTrip

SetState(st) ==
  /\ mem' = st.mem
  /\ free_list_head' = st.free_list_head
  /\ total_allocated' = st.total_allocated
  /\ total_free' = st.total_free
  /\ allocation_count' = st.allocation_count

\* a caller runs my_malloc(n)
Malloc(n) ==
  /\ ~tearing
  /\ allocs < MaxAllocs
  /\ \E r \in {my_malloc(State, n)} :
         /\ SetState(r.st)
         /\ lastCall' = [op |-> "malloc", arg |-> n, ret |-> r.ret, diag |-> r.diag]
         /\ returned' = IF r.ret = NULL THEN returned ELSE returned \cup {r.ret}
         /\ outstanding' = IF r.ret = NULL THEN outstanding ELSE outstanding \cup {r.ret}
         /\ allocs' = IF r.ret = NULL THEN allocs ELSE allocs + 1
         /\ rt' = IF rt.stage = 2 /\ rt.n = n THEN [stage |-> 3, n |-> n, p |-> r.ret]
                  ELSE IF r.ret # NULL THEN [stage |-> 1, n |-> n, p |-> r.ret]
                  ELSE NoTrip
  /\ UNCHANGED <<abi, memory_pool, fragmentation_score, tearing>>

\* a caller runs my_free(p) on none or on a reference it once got from
\* my_malloc; while tearing down, only on what is still outstanding
Free(p) ==
  /\ tearing => p \in outstanding
  /\ \E r \in {my_free(State, p)} :
         /\ SetState(r.st)
         /\ lastCall' = [op |-> "free", arg |-> p, ret |-> NULL, diag |-> r.diag]
  /\ outstanding' = outstanding \ {p}
  /\ rt' = IF rt.stage \in {1, 3} /\ p # NULL /\ p = rt.p
           THEN [stage |-> 2, n |-> rt.n, p |-> p]
           ELSE NoTrip
  /\ UNCHANGED <<abi, memory_pool, fragmentation_score, returned, tearing, allocs>>

\* the caller stops allocating and releases every outstanding payload
\* (the tail of demo_basic)
StartTeardown ==
  /\ ~tearing
  /\ tearing' = TRUE
  /\ lastCall' = [op |-> "teardown", arg |-> 0, ret |-> NULL, diag |-> "OK"]
  /\ rt' = NoTrip
  /\ UNCHANGED <<abi, memory_pool, allocVars, fragmentation_score, returned, outstanding, allocs>>

\* a caller runs calculate_fragmentation() (print_statistics does)
Fragmentation ==
  /\ fragmentation_score' = calculate_fragmentation(State)
  /\ lastCall' = [op |-> "fragmentation", arg |-> 0,
                  ret |-> fragmentation_score', diag |-> "OK"]
  /\ rt' = NoTrip
  /\ UNCHANGED <<abi, memory_pool, allocVars, returned, outstanding, tearing, allocs>>

\* the callers of my_malloc and my_free.  calculate_fragmentation writes
\* fragmentation_score only, which neither of them reads, so the behaviours
\* of the allocator proper are followed without it.
Next ==
  \/ \E n \in Requests : Malloc(n)
  \/ \E p \in returned \cup {NULL} : Free(p)
  \/ StartTeardown

Spec == Init /\ [][Next]_vars

\* the same callers taking the fragmentation measurement between calls
NextStats ==
  \/ Next
  \/ Fragmentation

SpecStats == Init /\ [][NextStats]_vars

\* ------------------------------------------------------------------------
\* Well-formedness of the model's state
\* ------------------------------------------------------------------------
TypeOK ==
  /\ abi \in {"ILP32", "LP64"}
  /\ free_list_head = memory_pool
  /\ outstanding \subseteq returned
  /\ tearing \in BOOLEAN
  /\ rt.stage \in 0..3
  /\ allocs \in 0..MaxAllocs

\* ------------------------------------------------------------------------
\* Views of the block list used by the properties
\* ------------------------------------------------------------------------
IsFree(b) == FreeOf(mem, b) # 0

RECURSIVE SumSpan(_)
SumSpan(l) ==
  IF l = <<>> THEN 0 ELSE HEADER_SIZE + SizeOf(mem, Head(l)) + SumSpan(Tail(l))

\* bytes x with lo1 <= x < hi1 and lo2 <= x < hi2 exist
Overlap(lo1, hi1, lo2, hi2) == lo1 < hi1 /\ lo2 < hi2 /\ lo1 < hi2 /\ lo2 < hi1

PayloadLo(b) == b + HEADER_SIZE
PayloadHi(b) == b + HEADER_SIZE + SizeOf(mem, b)

\* the first block of the list, in list order, that is free and has
\* size >= round_up(n, ALIGNMENT), or NULL.  A request n that is a negative
\* representative is within ALIGNMENT of 2^w, above every block size.
RECURSIVE FirstFree(_, _)
FirstFree(l, n) ==
  IF l = <<>> THEN NULL
  ELSE IF IsFree(Head(l)) /\ n > 0 /\ SizeOf(mem, Head(l)) >= AlignUp(n)
       THEN Head(l)
  ELSE FirstFree(Tail(l), n)

\* the step is a call of my_malloc, of my_free
IsMallocStep == lastCall'.op = "malloc" /\ lastCall' # lastCall
AllocUnchanged == allocVars' = allocVars

\* ------------------------------------------------------------------------
\* C1 - Integrity (P4): after each call every block on the block list
\* verifies: its magic is MAGIC_COOKIE and its stored checksum equals the
\* checksum recomputed over its current fields.
\* ------------------------------------------------------------------------
C1_Integrity == \A b \in BlockSet : verify_header(mem, b)

\* ------------------------------------------------------------------------
\* C2 - Full teardown: once free has been called on every outstanding
\* payload, the list is one free block of size POOL_SIZE - HEADER_SIZE and
\* total_allocated and allocation_count are 0.
\* ------------------------------------------------------------------------
C2_FullTeardown ==
  (tearing /\ outstanding = {}) =>
     /\ Len(BlockList) = 1
     /\ IsFree(free_list_head)
     /\ SizeOf(mem, free_list_head) = POOL_SIZE - HEADER_SIZE
     /\ total_allocated = 0
     /\ allocation_count = 0

\* ------------------------------------------------------------------------
\* C3 - Coverage (P1): after each call the sum of HEADER_SIZE + size over
\* the walked block list is POOL_SIZE.
\* ------------------------------------------------------------------------
C3_Coverage == SumSpan(BlockList) = POOL_SIZE

\* ------------------------------------------------------------------------
\* C4 - Accounting (P6): after each call
\* total_allocated + total_free + HEADER_SIZE * block_count = POOL_SIZE.
\* ------------------------------------------------------------------------
C4_Accounting ==
  total_allocated + total_free + HEADER_SIZE * Len(BlockList) = POOL_SIZE

\* C4 as amended: the counters move payload bytes between them and never
\* deduct the header of a split block, so after each call
\* total_allocated + total_free + HEADER_SIZE = POOL_SIZE.
C4_AccountingAmended ==
  total_allocated + total_free + HEADER_SIZE = POOL_SIZE

\* an allocation that split a block and a later release have both been accounted
C4_Witness ==
  /\ lastCall.op = "free" /\ lastCall.diag = "OK"
  /\ Len(BlockList) > 1
  /\ total_allocated > 0

\* ------------------------------------------------------------------------
\* C5 - No-adjacent-free (P5): after each call no block and its list
\* successor are both free.
\* ------------------------------------------------------------------------
C5_NoAdjacentFree ==
  \A b \in BlockSet :
     NextOf(mem, b) # NULL => ~(IsFree(b) /\ IsFree(NextOf(mem, b)))

\* a release whose block had a free predecessor: the block has left the list
C5_Witness ==
  /\ lastCall.op = "free" /\ lastCall.diag = "OK"
  /\ (lastCall.arg - HEADER_SIZE) \notin BlockSet
  /\ Len(BlockList) > 1

\* ------------------------------------------------------------------------
\* C6 - Non-aliasing (P7): after each call the payload ranges of the
\* allocated blocks are pairwise disjoint, and no allocated payload
\* overlaps the header of a block on the list.
\* ------------------------------------------------------------------------
C6_NonAliasing ==
  \A b \in BlockSet : ~IsFree(b) =>
     /\ \A c \in BlockSet : (c # b /\ ~IsFree(c)) =>
           ~Overlap(PayloadLo(b), PayloadHi(b), PayloadLo(c), PayloadHi(c))
     /\ \A c \in BlockSet :
           ~Overlap(PayloadLo(b), PayloadHi(b), c, c + HEADER_SIZE)

\* three live allocations with payload bytes
C6_Witness ==
  Cardinality({b \in BlockSet : ~IsFree(b) /\ SizeOf(mem, b) > 0}) >= 3

\* ------------------------------------------------------------------------
\* C7 - First fit and completeness: my_malloc(n), n > 0, returns the payload
\* of the first block in list order that is free with
\* size >= round_up(n, ALIGNMENT), and none only if there is no such block.
\* ------------------------------------------------------------------------
C7_FirstFit ==
  [][ (IsMallocStep /\ lastCall'.arg # 0) =>
        LET fit == FirstFree(BlockList, lastCall'.arg)
        IN  lastCall'.ret = IF fit = NULL THEN NULL ELSE fit + HEADER_SIZE
    ]_vars

\* ------------------------------------------------------------------------
\* C8 - Round trip: if my_malloc(n) returned p # none, then my_free(p)
\* directly followed by my_malloc(n) returns a reference that is not none.
\* ------------------------------------------------------------------------
C8_RoundTrip == rt.stage = 3 => rt.p # NULL

\* a round trip has been completed, its second allocation needing the block
\* the first one released (nothing else on the list is big enough)
C8_Witness ==
  /\ rt.stage = 3
  /\ rt.p # NULL
  /\ \A b \in BlockSet : b # rt.p - HEADER_SIZE => SizeOf(mem, b) < AlignUp(rt.n)

\* ------------------------------------------------------------------------
\* C9 - Order (P2, address part): after each call every block b with a
\* successor has address(b.next) = address(b) + HEADER_SIZE + b.size.
\* ------------------------------------------------------------------------
C9_Order ==
  \A b \in BlockSet :
     NextOf(mem, b) # NULL => NextOf(mem, b) = b + HEADER_SIZE + SizeOf(mem, b)

\* ------------------------------------------------------------------------
\* C10 - Oversized request: my_malloc(n) with n > POOL_SIZE - HEADER_SIZE in
\* the unsigned size type returns none and changes no state.
\* ------------------------------------------------------------------------
C10_Oversized ==
  [][ (IsMallocStep /\ lastCall'.arg # 0
         /\ ~UGe(POOL_SIZE - HEADER_SIZE, lastCall'.arg)) =>
        (lastCall'.ret = NULL /\ AllocUnchanged)
    ]_vars

\* ------------------------------------------------------------------------
\* C11 - free() rejections are no-ops: my_free(p) with p none, or with a
\* header at p - HEADER_SIZE that fails verify_header, or with that header
\* already free, leaves memory (every header field of every block) and
\* total_allocated, total_free and allocation_count unchanged.
\* ------------------------------------------------------------------------
C11_FreeRejected ==
  [][ ( /\ lastCall'.op = "free"
        /\ \/ lastCall'.arg = NULL
           \/ ~verify_header(mem, lastCall'.arg - HEADER_SIZE)
           \/ FreeOf(mem, lastCall'.arg - HEADER_SIZE) # 0 )
      => AllocUnchanged
    ]_vars

\* a second free of a payload whose block was merged into a neighbour
C11_Witness ==
  /\ lastCall.op = "free" /\ lastCall.diag = "DOUBLEFREE"
  /\ (lastCall.arg - HEADER_SIZE) \notin BlockSet
  /\ lastCall.arg \in returned

\* ------------------------------------------------------------------------
\* C12 - Allocation failure is a no-op: whenever my_malloc(n) returns none
\* (n = 0, no satisfying block, or a block failing verify_header met in the
\* traversal) memory and the three counters are as before the call.
\* ------------------------------------------------------------------------
C12_MallocFailed ==
  [][ (lastCall'.op = "malloc" /\ lastCall'.ret = NULL) => AllocUnchanged ]_vars

\* a request that no block satisfies, made while blocks are live and the
\* list has been split
C12_Witness ==
  /\ lastCall.op = "malloc" /\ lastCall.ret = NULL
  /\ lastCall.diag = "FAIL"
  /\ allocation_count > 0
  /\ Len(BlockList) > 1

\* ------------------------------------------------------------------------
\* C13 - Payload accounting: after each call total_allocated is the sum of
\* size over the blocks of the list that are not free.
\* ------------------------------------------------------------------------
RECURSIVE SumLive(_)
SumLive(l) ==
  IF l = <<>> THEN 0
  ELSE (IF IsFree(Head(l)) THEN 0 ELSE SizeOf(mem, Head(l))) + SumLive(Tail(l))

C13_PayloadAccounting == total_allocated = SumLive(BlockList)

\* blocks of different sizes are live after a release has been accounted
C13_Witness ==
  /\ lastCall.op = "free" /\ lastCall.diag = "OK"
  /\ \E b, c \in BlockSet :
        /\ ~IsFree(b) /\ ~IsFree(c)
        /\ SizeOf(mem, b) > 0 /\ SizeOf(mem, c) > SizeOf(mem, b)

\* ------------------------------------------------------------------------
\* C14: after every call the list is not empty, its head is the block at the
\* pool base and has no predecessor, every block with a successor is the
\* predecessor of that successor, and addresses strictly increase along next.
C14_WellFormed ==
  /\ free_list_head # NULL
  /\ free_list_head = memory_pool
  /\ Len(BlockList) >= 1
  /\ PrevOf(mem, free_list_head) = NULL
  /\ \A b \in BlockSet :
       NextOf(mem, b) # NULL =>
         /\ PrevOf(mem, NextOf(mem, b)) = b
         /\ NextOf(mem, b) > b

\* a free that merged its block backward in a list that keeps three blocks
C14_Witness ==
  /\ lastCall.op = "free" /\ lastCall.diag = "OK"
  /\ (lastCall.arg - HEADER_SIZE) \notin BlockSet
  /\ Len(BlockList) >= 3

\* ------------------------------------------------------------------------
\* C15: every payload address my_malloc has returned is a multiple of
\* ALIGNMENT counted from the pool base, and after every call the size of
\* every block on the list is a multiple of ALIGNMENT.
C15_Alignment ==
  /\ \A p \in returned : (p - memory_pool) % ALIGNMENT = 0
  /\ \A b \in BlockSet : SizeOf(mem, b) % ALIGNMENT = 0

\* a request of one byte served from a block behind the head
C15_Witness ==
  /\ lastCall.op = "malloc" /\ lastCall.arg = 1 /\ lastCall.ret # NULL
  /\ lastCall.ret - HEADER_SIZE # memory_pool
  /\ SizeOf(mem, lastCall.ret - HEADER_SIZE) = ALIGNMENT
  /\ lastCall.ret \in returned

\* ------------------------------------------------------------------------
\* the free blocks of the list, whatever their checksum says
FreeBlocks == {b \in BlockSet : IsFree(b)}

RECURSIVE SumSizes(_)
SumSizes(S) ==
  IF S = {} THEN 0
  ELSE LET b == CHOOSE x \in S : TRUE
       IN  SizeOf(mem, b) + SumSizes(S \ {b})

LargestSize(S) ==
  IF S = {} THEN 0
  ELSE LET b == CHOOSE x \in S : \A y \in S : SizeOf(mem, x) >= SizeOf(mem, y)
       IN  SizeOf(mem, b)

\* C16: with k the number of free blocks, F the total of their sizes and L
\* the largest of their sizes, calculate_fragmentation() yields 0 when
\* k <= 1 or F = 0 and 100 - floor(100 * L / F) otherwise; the result lies
\* in 0..100 and the call changes no block and no accounting counter.
C16_Fragmentation ==
  [][ lastCall'.op = "fragmentation" =>
        LET k == Cardinality(FreeBlocks)
            F == SumSizes(FreeBlocks)
            L == LargestSize(FreeBlocks)
        IN  /\ fragmentation_score' =
                 IF k <= 1 \/ F = 0 THEN 0 ELSE 100 - ((100 * L) \div F)
            /\ fragmentation_score' \in 0..100
            /\ lastCall'.ret = fragmentation_score'
            /\ AllocUnchanged ]_vars

\* a measurement over two or more free blocks that is not zero
C16_Witness ==
  /\ lastCall.op = "fragmentation"
  /\ lastCall.ret > 0 /\ lastCall.ret = fragmentation_score
  /\ Cardinality(FreeBlocks) >= 2
  /\ allocation_count > 0

\* ------------------------------------------------------------------------
\* C17: when my_malloc(n) selects a block b whose remainder
\* b.size - round_up(n) is below HEADER_SIZE + ALIGNMENT, no block is
\* created, b.next is unchanged and b.size after the call is b.size before
\* the call.
C17_NoSplitKeepsSize ==
  [][ (IsMallocStep /\ lastCall'.ret # NULL) =>
        LET b == lastCall'.ret - HEADER_SIZE
            r == SizeOf(mem, b) - AlignUp(lastCall'.arg)
        IN  ~UGe(r, HEADER_SIZE + ALIGNMENT) =>
              /\ NextOf(mem', b) = NextOf(mem, b)
              /\ ListFrom(mem', free_list_head') = BlockList
              /\ SizeOf(mem', b) = SizeOf(mem, b) ]_vars

\* ------------------------------------------------------------------------
\* C18: when my_free(p) is called on a block b that verifies and has
\* free == 0, afterwards one free block stands for b and for each of b.next
\* and b.prev that was free before the call: it starts at the lowest of
\* them, its size is b.size plus HEADER_SIZE + size of every merged
\* neighbour, the headers it absorbed are off the list, and the size and the
\* free flag of every other block are as before.
C18_Coalesced ==
  [][ ( /\ lastCall'.op = "free" /\ lastCall'.arg # NULL
        /\ verify_header(mem, lastCall'.arg - HEADER_SIZE)
        /\ FreeOf(mem, lastCall'.arg - HEADER_SIZE) = 0 ) =>
        LET b == lastCall'.arg - HEADER_SIZE
            nb == NextOf(mem, b)
            pb == PrevOf(mem, b)
            nFree == nb # NULL /\ FreeOf(mem, nb) # 0
            pFree == pb # NULL /\ FreeOf(mem, pb) # 0
            survivor == IF pFree THEN pb ELSE b
            absorbed == (IF nFree THEN {nb} ELSE {}) \cup (IF pFree THEN {b} ELSE {})
            merged == SizeOf(mem, b)
                      + (IF nFree THEN HEADER_SIZE + SizeOf(mem, nb) ELSE 0)
                      + (IF pFree THEN HEADER_SIZE + SizeOf(mem, pb) ELSE 0)
        IN  \E afterSet \in {SetOf(ListFrom(mem', free_list_head'))} :
            /\ b \in BlockSet
            /\ afterSet = BlockSet \ absorbed
            /\ survivor \in afterSet
            /\ FreeOf(mem', survivor) # 0
            /\ SizeOf(mem', survivor) = merged
            /\ \A c \in afterSet \ {survivor} :
                 /\ SizeOf(mem', c) = SizeOf(mem, c)
                 /\ FreeOf(mem', c) = FreeOf(mem, c) ]_vars

\* a free that merged forward and backward: its header left the list, and
\* the size it records is its own payload plus the header and payload of
\* the block x that followed it, whose header left the list as well
C18_Witness ==
  /\ lastCall.op = "free" /\ lastCall.diag = "OK"
  /\ (lastCall.arg - HEADER_SIZE) \notin BlockSet
  /\ \E n \in Requests :
       LET b == lastCall.arg - HEADER_SIZE
           x == b + HEADER_SIZE + AlignUp(n)
       IN  /\ x \notin BlockSet
           /\ Rd(mem, x + OffMagic) = MAGIC_COOKIE
           /\ FreeOf(mem, x) # 0
           /\ PrevOf(mem, x) = b
           /\ SizeOf(mem, b) = AlignUp(n) + HEADER_SIZE + SizeOf(mem, x)
  /\ Len(BlockList) >= 2

\* ------------------------------------------------------------------------
\* C19: for every payload p that my_malloc returned and that was not freed
\* since, my_free(p) reports neither corruption nor a double free; it marks
\* the block free, takes one from allocation_count and takes the block's
\* size from total_allocated.
C19_Releasable ==
  [][ (lastCall'.op = "free" /\ lastCall'.arg \in outstanding) =>
        LET b == lastCall'.arg - HEADER_SIZE
        IN  /\ lastCall'.diag \notin {"CORRUPTION", "DOUBLEFREE"}
            /\ FreeOf(mem', b) # 0
            /\ allocation_count' = allocation_count - 1
            /\ total_allocated' = total_allocated - SizeOf(mem, b) ]_vars

\* ------------------------------------------------------------------------
\* C20: from the call of my_malloc that returned p for block b until
\* my_free(p) is called, every other call leaves b on the list, allocated
\* and with the same size; a block turns from free to allocated only in the
\* my_malloc call that returns its payload, turns from allocated to free or
\* leaves the list while allocated only in my_free on its own payload, and
\* a block that enters the list enters it free.
C20_LiveStable ==
  [][ \E before \in {BlockSet}, afterSet \in {SetOf(ListFrom(mem', free_list_head'))} :
          /\ \A p \in outstanding :
               \/ lastCall'.op = "free" /\ lastCall'.arg = p
               \/ LET b == p - HEADER_SIZE
                  IN  /\ b \in before /\ FreeOf(mem, b) = 0
                      /\ b \in afterSet /\ FreeOf(mem', b) = 0
                      /\ SizeOf(mem', b) = SizeOf(mem, b)
          /\ \A b \in before \cap afterSet :
               /\ (FreeOf(mem, b) # 0 /\ FreeOf(mem', b) = 0) =>
                    (lastCall'.op = "malloc" /\ lastCall'.ret = b + HEADER_SIZE)
               /\ (FreeOf(mem, b) = 0 /\ FreeOf(mem', b) # 0) =>
                    (lastCall'.op = "free" /\ lastCall'.arg = b + HEADER_SIZE)
          /\ \A b \in before \ afterSet :
               FreeOf(mem, b) = 0 =>
                 (lastCall'.op = "free" /\ lastCall'.arg = b + HEADER_SIZE)
          /\ \A b \in afterSet \ before : FreeOf(mem', b) # 0 ]_vars

\* a free that merged backward while a block allocated earlier and lying
\* behind the merged range is still live
C20_Witness ==
  /\ lastCall.op = "free" /\ lastCall.diag = "OK"
  /\ (lastCall.arg - HEADER_SIZE) \notin BlockSet
  /\ \E p \in outstanding :
       /\ p > lastCall.arg
       /\ (p - HEADER_SIZE) \in BlockSet
       /\ ~IsFree(p - HEADER_SIZE)
       /\ SizeOf(mem, p - HEADER_SIZE) > 0

====
